---- MODULE Spec2Model ----
(***************************************************************************)
(* Aidanna AI - Story Learning API (src/main.py).                          *)
(*                                                                         *)
(* Three specifications over one set of variables:                         *)
(*   Spec        startup, GET routes, POST /generate and the handler part  *)
(*               of POST /stream, over the request set Requests;           *)
(*   SpecStream  startup, POST /stream over a few valid requests, and the  *)
(*               event_generator coroutine with its consumer;              *)
(*   SpecPrompt  build_system_prompt applied to every mode and every       *)
(*               validated Personalization of the bounded input sets.      *)
(*                                                                         *)
(* Conventions.  An Optional[T] value is a set with at most one element:   *)
(* {} is None.  Temperatures are counted in tenths (0.8 is 8).  A string   *)
(* built by an f-string is the sequence of its pieces; " ".join is the     *)
(* concatenation of those sequences with " " between them.                 *)
(***************************************************************************)
EXTENDS Integers, Sequences, FiniteSets, TLC

VARIABLES
    hasKey,        \* os.getenv("OPENAI_API_KEY") is set (main.py:16)
    phase,         \* "boot" | "serving" | "failed": module import of main.py
    endpoint,      \* route of the request in hand, "none" before it arrives
    req,           \* Optional: the JSON body of the POST in hand
    call,          \* Optional: the arguments of client.chat.completions.create
    resp,          \* Optional: the HTTP response (status line and body shape)
    isAsync,       \* hasattr(stream, "__aiter__") (main.py:197)
    gpc,           \* position of the event_generator coroutine
    pending,       \* exception the framework throws into the generator
    events,        \* chunks the upstream iterator has delivered so far
    frames,        \* SSE frames the generator has yielded so far
    completed,     \* the upstream iterator ended normally (StopIteration)
    raised,        \* the upstream iterator raised during iteration
    disconnected,  \* the client has gone away
    cin,           \* Optional: arguments of a build_system_prompt call
    cout           \* Optional: what that call returned

vars == <<hasKey, phase, endpoint, req, call, resp, isAsync, gpc, pending,
          events, frames, completed, raised, disconnected, cin, cout>>

httpVars == <<endpoint, req, call, resp>>
genVars == <<isAsync, gpc, pending, events, frames, completed, raised, disconnected>>
promptVars == <<cin, cout>>

Val(v) == CHOOSE x \in v : TRUE

-----------------------------------------------------------------------------
(* Mode registry and prompt compiler.                                      *)

MODE_DEFINITIONS == {"narrative", "dialogue", "case-study", "interactive"}

BaseTemplate(mode) ==
    CASE mode = "narrative" ->
           "You are Aidanna, a warm and enthusiastic learning companion who transforms topics into captivating narrative stories. Create clear story arcs, relatable characters, and embed the learning goal so the reader learns while entertained."
      [] mode = "dialogue" ->
           "You are Aidanna, a creative learning companion who teaches through dialogue. Create natural, educational conversations between characters that progressively uncover the topic."
      [] mode = "case-study" ->
           "You are Aidanna, an insightful learning companion. Produce a real-world case study: context, problem statement, analysis, decisions, and outcomes with practical takeaways."
      [] mode = "interactive" ->
           "You are Aidanna, an interactive learning companion. Present a scenario with clear choices, and for each choice, describe consequences and learning points. Allow users to make decisions."
      [] OTHER -> ""

ClosingSentence == "Be concise but clear. Use examples and explicit learning takeaways."

\* str(n) for the integers a Personalization can hold.
IntStr(n) == <<"1", "2", "3", "4", "5", "6", "7", "8", "9", "10">>[n]

\* Python truth value of an Optional[str] and of an Optional[int].
TruthyStr(f) == f # {} /\ Val(f) # ""
TruthyInt(f) == f # {} /\ Val(f) # 0

\* The clause appended for one field (main.py:97-107), as f-string pieces.
Clause(field, p) ==
    CASE field = "tone" -> <<"Tone: ", Val(p.tone), ".">>
      [] field = "setting" -> <<"Setting: ", Val(p.setting), ".">>
      [] field = "characters" ->
           <<"Use approximately ", IntStr(Val(p.characters)), " characters.">>
      [] field = "length" -> <<"Target length: ", Val(p.length), ".">>
      [] field = "choices" -> <<"Interactive choices: ", IntStr(Val(p.choices)), ".">>
      [] field = "extra_instructions" -> <<"Extra: ", Val(p.extra_instructions)>>

AppendToneSwapped(parts, p) ==
    LET a == IF TruthyStr(p.setting) THEN Append(parts, Clause("setting", p)) ELSE parts
    IN  IF TruthyStr(p.tone) THEN Append(a, Clause("tone", p)) ELSE a

\* main.py:96-99: the tone clause, then the setting clause.
AppendToneSetting(parts, p) ==
    LET a == IF TruthyStr(p.tone) THEN Append(parts, Clause("tone", p)) ELSE parts
    IN  IF TruthyStr(p.setting) THEN Append(a, Clause("setting", p)) ELSE a

\* main.py:94-108: the list `parts` just before the join.
PromptParts(mode, personalization) ==
    LET base == << <<BaseTemplate(mode)>> >>
        body ==
            IF personalization # {}
            THEN LET p == Val(personalization)
                     b == AppendToneSetting(base, p)
                     c == IF TruthyInt(p.characters)
                          THEN Append(b, Clause("characters", p)) ELSE b
                     d == IF TruthyStr(p.length)
                          THEN Append(c, Clause("length", p)) ELSE c
                     e == IF TruthyInt(p.choices)
                          THEN Append(d, Clause("choices", p)) ELSE d
                 IN  IF TruthyStr(p.extra_instructions)
                     THEN Append(e, Clause("extra_instructions", p)) ELSE e
            ELSE base
    IN  Append(body, <<ClosingSentence>>)

RECURSIVE Join(_)
\* " ".join(parts)
Join(parts) ==
    IF Len(parts) = 0 THEN <<>>
    ELSE IF Len(parts) = 1 THEN parts[1]
    ELSE parts[1] \o <<" ">> \o Join(Tail(parts))

build_system_prompt(mode, personalization) == Join(PromptParts(mode, personalization))

-----------------------------------------------------------------------------
(* Request bodies.                                                         *)

\* A JSON value sent where a number is expected: the key is absent, holds a
\* number, or holds a string that is no number (such as "abc").
Absent == [k |-> "absent", v |-> 0]
Num(n) == [k |-> "num", v |-> n]
NotANumber == [k |-> "str", v |-> 0]

TemperatureMin == 0
TemperatureMax == 20
TemperatureDefault == 8
MaxTokensMin == 64
MaxTokensMax == 2000
MaxTokensDefault == 800
CharactersMin == 1
CharactersMax == 10
ChoicesMin == 1
ChoicesMax == 6

\* A personalization object with no key set.
NoFields ==
    [tone |-> {}, setting |-> {}, characters |-> {}, length |-> {},
     choices |-> {}, extra_instructions |-> {}]

Temperatures == {Absent, Num(0 - 1), Num(0), Num(20), Num(25), NotANumber}
TokenCounts == {Absent, Num(63), Num(64), Num(2000), Num(3000), NotANumber}
RequestModes == MODE_DEFINITIONS \cup {"unknown-mode"}
RequestPersonalizations ==
    {{}, {NoFields}}
    \cup {{[NoFields EXCEPT !.characters = {n}]} : n \in {0, 1, 10, 11}}
    \cup {{[NoFields EXCEPT !.choices = {n}]} : n \in {0, 1, 6, 7}}
    \cup {{[NoFields EXCEPT !.tone = {t}]} : t \in {"", "warm"}}

Requests ==
    [mode : RequestModes, temperature : Temperatures, max_tokens : TokenCounts,
     personalization : RequestPersonalizations]

\* The requests SpecStream follows into the event generator.
StreamRequests ==
    {[mode |-> "narrative", temperature |-> Absent, max_tokens |-> Absent,
      personalization |-> {}],
     [mode |-> "interactive", temperature |-> Num(20), max_tokens |-> Num(64),
      personalization |-> {[NoFields EXCEPT !.choices = {6}]}],
     [mode |-> "unknown-mode", temperature |-> Absent, max_tokens |-> Absent,
      personalization |-> {}]}

-----------------------------------------------------------------------------
(* Validation (pydantic models, main.py:48-69).                            *)

InRange(j, lo, hi) == j.k = "absent" \/ (j.k = "num" /\ lo <= j.v /\ j.v <= hi)

\* Personalization(**d) succeeds.
PersonalizationValid(d) ==
    /\ d.characters = {} \/ Val(d.characters) \in CharactersMin..CharactersMax
    /\ d.choices = {} \/ Val(d.choices) \in ChoicesMin..ChoicesMax

\* FastAPI parses the body of POST /generate into a GenerateRequest.
GenerateRequestValid(r) ==
    /\ InRange(r.temperature, TemperatureMin, TemperatureMax)
    /\ InRange(r.max_tokens, MaxTokensMin, MaxTokensMax)
    /\ r.personalization = {} \/ PersonalizationValid(Val(r.personalization))

\* The value of a numeric field after its default is applied.
WithDefault(j, default) == IF j.k = "absent" THEN default ELSE j.v

\* float(x) and int(x) raise ValueError on a string that is no number.
ConversionRaises(j) == j.k = "str"

-----------------------------------------------------------------------------
(* Responses.                                                              *)

\* body: "result" is a GenerateResponse, "detail" is {detail: message},
\* "detail_list" is FastAPI's {detail: [errors]} of a request validation error,
\* "plain" is the text/plain "Internal Server Error" of an unhandled exception,
\* "sse" is a text/event-stream, "modes" is the registry.
Response(status, body, id) == [status |-> status, body |-> body, id |-> id]

HTTPException(status) == Response(status, "detail", {})
RequestValidationError == Response(422, "detail_list", {})
UnhandledException == Response(500, "plain", {})

\* What client.chat.completions.create can do on POST /generate: raise, or
\* return a completion whose id attribute is missing, None or a string, whose
\* choices list has n entries and whose message content is a string or None.
Completions ==
    [raises : {FALSE}, idk : {"missing", "none"}, idv : {""},
     content : {{}, {"Once upon a time"}}, n : {0, 1}]
    \cup [raises : {FALSE}, idk : {"str"}, idv : {"", "chatcmpl-1"},
          content : {{}, {"Once upon a time"}}, n : {0, 1}]
    \cup {[raises |-> TRUE, idk |-> "missing", idv |-> "", content |-> {}, n |-> 0]}

\* str(time.time())
Timestamps == {"1730000000.25", "1730000001.5"}

\* main.py:147: getattr(completion, "id", str(time.time()))
response_id(c, now) ==
    CASE c.idk = "missing" -> {now}
      [] c.idk = "none" -> {}
      [] c.idk = "str" -> {c.idv}

\* main.py:136-156: the try block of generate, given what the upstream did.
GenerateResult(c, now) ==
    IF c.raises THEN HTTPException(500)
    ELSE IF c.n = 0 THEN HTTPException(500)
    ELSE IF response_id(c, now) = {} \/ c.content = {} THEN HTTPException(500)
    ELSE Response(200, "result", response_id(c, now))

CompletionCall(system, temperature, max_tokens, stream) ==
    [system |-> system, temperature |-> temperature, max_tokens |-> max_tokens,
     stream |-> stream]

-----------------------------------------------------------------------------
(* Process start and the HTTP handlers.                                    *)

Init ==
    /\ hasKey \in BOOLEAN
    /\ phase = "boot"
    /\ endpoint = "none" /\ req = {} /\ call = {} /\ resp = {}
    /\ isAsync = FALSE /\ gpc = "none" /\ pending = "none"
    /\ events = <<>> /\ frames = <<>>
    /\ completed = FALSE /\ raised = FALSE /\ disconnected = FALSE
    /\ cin = {} /\ cout = {}

StartupDisabledGateway ==
    /\ phase = "boot"
    /\ phase' = "serving"
    /\ UNCHANGED <<hasKey, httpVars, genVars, promptVars>>

\* main.py:16-21: importing the module raises RuntimeError without the key,
\* and otherwise builds the client and the app.
Startup ==
    /\ phase = "boot"
    /\ phase' = IF hasKey THEN "serving" ELSE "failed"
    /\ UNCHANGED <<hasKey, httpVars, genVars, promptVars>>

Idle == phase = "serving" /\ endpoint = "none"

\* main.py:118-121
get_modes ==
    /\ Idle
    /\ endpoint' = "GET /modes"
    /\ resp' = {Response(200, "modes", {})}
    /\ UNCHANGED <<hasKey, phase, req, call, genVars, promptVars>>

\* A GET of a path the app declares no route for: the router answers 404.
get_unrouted ==
    /\ Idle
    /\ \E path \in {"GET /health", "GET /"} : endpoint' = path
    /\ resp' = {HTTPException(404)}
    /\ UNCHANGED <<hasKey, phase, req, call, genVars, promptVars>>

\* main.py:123-156
generate_on(r) ==
    /\ Idle
    /\ endpoint' = "POST /generate"
    /\ req' = {r}
    /\ IF ~GenerateRequestValid(r)
       THEN resp' = {RequestValidationError} /\ call' = {}
       ELSE IF r.mode \notin MODE_DEFINITIONS
       THEN resp' = {HTTPException(400)} /\ call' = {}
       ELSE /\ call' = {CompletionCall(
                          build_system_prompt(r.mode, r.personalization),
                          WithDefault(r.temperature, TemperatureDefault),
                          WithDefault(r.max_tokens, MaxTokensDefault), FALSE)}
            /\ \E c \in Completions, now \in Timestamps :
                  resp' = {GenerateResult(c, now)}
    /\ UNCHANGED <<hasKey, phase, genVars, promptVars>>

generate == \E r \in Requests : generate_on(r)

\* main.py:176: Personalization(**(personalization or {})) if personalization else None
StreamPersonalization(p) == IF p = {} \/ Val(p) = NoFields THEN {} ELSE p

\* main.py:158-191 and 234
stream_generate_on(r) ==
    /\ Idle
    /\ endpoint' = "POST /stream"
    /\ req' = {r}
    /\ IF r.mode \notin MODE_DEFINITIONS
       THEN resp' = {HTTPException(400)} /\ call' = {} /\ UNCHANGED genVars
       ELSE IF \/ ConversionRaises(r.temperature)
               \/ ConversionRaises(r.max_tokens)
               \/ /\ StreamPersonalization(r.personalization) # {}
                  /\ ~PersonalizationValid(Val(r.personalization))
       THEN resp' = {UnhandledException} /\ call' = {} /\ UNCHANGED genVars
       ELSE /\ call' = {CompletionCall(
                          build_system_prompt(r.mode, StreamPersonalization(r.personalization)),
                          WithDefault(r.temperature, TemperatureDefault),
                          WithDefault(r.max_tokens, MaxTokensDefault), TRUE)}
            /\ \/ /\ resp' = {HTTPException(500)}
                  /\ UNCHANGED genVars
               \/ /\ resp' = {Response(200, "sse", {})}
                  /\ isAsync' \in BOOLEAN
                  /\ gpc' = "start"
                  /\ UNCHANGED <<pending, events, frames, completed, raised, disconnected>>
    /\ UNCHANGED <<hasKey, phase, promptVars>>

stream_generate == \E r \in Requests : stream_generate_on(r)

Next == Startup \/ get_modes \/ get_unrouted \/ generate \/ stream_generate

Spec == Init /\ [][Next]_vars

-----------------------------------------------------------------------------
(* Properties of the HTTP surface, checked under Spec.                     *)

Posted == endpoint \in {"POST /generate", "POST /stream"}

\* A numeric field holds a number outside its declared range.
OutOfRange(j, lo, hi) == j.k = "num" /\ (j.v < lo \/ j.v > hi)

HasOutOfRangeField(r) ==
    \/ OutOfRange(r.temperature, TemperatureMin, TemperatureMax)
    \/ OutOfRange(r.max_tokens, MaxTokensMin, MaxTokensMax)
    \/ \E d \in r.personalization :
          \/ \E n \in d.characters : n < CharactersMin \/ n > CharactersMax
          \/ \E n \in d.choices : n < ChoicesMin \/ n > ChoicesMax

HasMalformedField(r) ==
    r.temperature.k = "str" \/ r.max_tokens.k = "str"

\* C4 (as claimed): a POST whose mode is no registry key is answered 400 and
\* makes no upstream call; an upstream call implies the mode is a registry key.
C4_UnknownModeRejected400 ==
    /\ call # {} => \A r \in req : r.mode \in MODE_DEFINITIONS
    /\ \A r \in req, p \in resp :
          Posted /\ r.mode \notin MODE_DEFINITIONS => p.status = 400 /\ call = {}

\* C5 (as claimed): on both POST routes a request with an out-of-range
\* temperature, max_tokens, characters or choices never reaches the upstream,
\* and the upstream is never called with an out-of-range temperature or
\* max_tokens.
C5_OutOfRangeNeverReachesUpstream ==
    /\ \A r \in req : Posted /\ HasOutOfRangeField(r) => call = {}
    /\ \A c \in call :
          /\ c.temperature \in TemperatureMin..TemperatureMax
          /\ c.max_tokens \in MaxTokensMin..MaxTokensMax

C7_FailuresAreDetail400Or500 ==
    \A r \in req, p \in resp :
        Posted /\ p.status # 200 =>
            /\ p.body = "detail"
            /\ p.status =
                 IF \/ r.mode \notin MODE_DEFINITIONS
                    \/ HasOutOfRangeField(r)
                    \/ HasMalformedField(r)
                 THEN 400 ELSE 500

\* C9 (as claimed): every 200 response of POST /generate has a non-empty id.
C9_SuccessHasNonEmptyId ==
    \A p \in resp :
        endpoint = "POST /generate" /\ p.status = 200 =>
            p.id # {} /\ Val(p.id) # ""

-----------------------------------------------------------------------------
(* event_generator (main.py:193-232) and the consumer that drives it.      *)

MaxChunks == 3

\* An upstream event.  shape "delta": choices[0].delta is a mapping, with or
\* without the key "content"; shape "message": choices[0].message.content
\* exists; shape "other": neither access works.
Chunk(shape, key, content) == [shape |-> shape, key |-> key, content |-> content]

Chunks ==
    {Chunk("delta", TRUE, {"Once"}), Chunk("delta", TRUE, {""}),
     Chunk("delta", TRUE, {}), Chunk("delta", FALSE, {}),
     Chunk("message", FALSE, {"upon"}), Chunk("other", FALSE, {})}

\* str(chunk)
StrOfChunk(c) == "ChatCompletionChunk(...)"

\* main.py:201-209 (and 215-222): the piece taken from a chunk, None as {}.
ExtractPiece(c) ==
    CASE c.shape = "delta" -> IF c.key THEN c.content ELSE {""}
      [] c.shape = "message" -> c.content
      [] OTHER -> {StrOfChunk(c)}

PieceNotNone(piece) == piece # {}

\* main.py:210 and 223: `if piece:`
PieceTruthy(piece) == piece # {} /\ Val(piece) # ""

\* f"data: {json.dumps({key: value})}\n\n"
Frame(key, value) == [key |-> key, value |-> value]
DeltaFrame(piece) == Frame("delta", piece)
DoneFrame == Frame("done", "true")
ErrorFrame(message) == Frame("error", message)

\* str(e) of the exceptions that reach the except clauses.
Message(exc) == IF exc = "UpstreamError" THEN "upstream failed" ELSE ""

IsExceptionAll(exc) == TRUE

IsExceptionNone(exc) == FALSE

\* isinstance(e, Exception): GeneratorExit and asyncio.CancelledError derive
\* from BaseException only.
IsException(exc) == exc \notin {"GeneratorExit", "CancelledError"}

\* main.py:229-232: what the try statement does with an exception raised in
\* its body.
ExceptClause(exc) ==
    IF exc = "GeneratorExit" THEN "return"
    ELSE IF IsException(exc) THEN "yield_error"
    ELSE "propagate"

\* The exception leaves or is handled; frames and position follow.
Raise(exc) ==
    CASE ExceptClause(exc) = "return" ->
           gpc' = "closed" /\ UNCHANGED frames
      [] ExceptClause(exc) = "yield_error" ->
           gpc' = "yield_error" /\ frames' = Append(frames, ErrorFrame(Message(exc)))
      [] OTHER ->
           gpc' = "propagated" /\ UNCHANGED frames

Running == pending = "none"

\* Where the loop goes after a chunk is dealt with: the sync branch awaits
\* asyncio.sleep(0) (main.py:226), the async branch awaits the next chunk.
AfterChunk == IF isAsync THEN "iterate" ELSE "sleep"

\* The consumer's first __anext__: the generator enters the try statement.
gen_start ==
    /\ gpc = "start" /\ Running
    /\ gpc' = "iterate"
    /\ UNCHANGED <<hasKey, phase, httpVars, promptVars, isAsync, pending, events,
                   frames, completed, raised, disconnected>>

\* main.py:198-211 and 214-226: the upstream delivers a chunk.
next_chunk ==
    /\ gpc = "iterate" /\ Running
    /\ Len(events) < MaxChunks
    /\ \E c \in Chunks :
          /\ events' = Append(events, c)
          /\ IF PieceTruthy(ExtractPiece(c))
             THEN /\ frames' = Append(frames, DeltaFrame(Val(ExtractPiece(c))))
                  /\ gpc' = "yield_delta"
             ELSE /\ UNCHANGED frames
                  /\ gpc' = AfterChunk
    /\ UNCHANGED <<hasKey, phase, httpVars, promptVars, isAsync, pending,
                   completed, raised, disconnected>>

\* main.py:228: the upstream iterator is exhausted.
next_stop ==
    /\ gpc = "iterate" /\ Running
    /\ completed' = TRUE
    /\ frames' = Append(frames, DoneFrame)
    /\ gpc' = "yield_done"
    /\ UNCHANGED <<hasKey, phase, httpVars, promptVars, isAsync, pending, events,
                   raised, disconnected>>

\* The upstream iterator raises while the loop asks for the next chunk.
next_raise ==
    /\ gpc = "iterate" /\ Running
    /\ raised' = TRUE
    /\ Raise("UpstreamError")
    /\ UNCHANGED <<hasKey, phase, httpVars, promptVars, isAsync, pending, events,
                   completed, disconnected>>

\* The consumer has sent the delta frame and asks for the next one.
resume_delta ==
    /\ gpc = "yield_delta" /\ Running
    /\ gpc' = AfterChunk
    /\ UNCHANGED <<hasKey, phase, httpVars, promptVars, isAsync, pending, events,
                   frames, completed, raised, disconnected>>

\* main.py:226: asyncio.sleep(0) returns.
resume_sleep ==
    /\ gpc = "sleep" /\ Running
    /\ gpc' = "iterate"
    /\ UNCHANGED <<hasKey, phase, httpVars, promptVars, isAsync, pending, events,
                   frames, completed, raised, disconnected>>

\* After the done frame the generator falls off its end.
resume_done ==
    /\ gpc = "yield_done" /\ Running
    /\ gpc' = "finished"
    /\ UNCHANGED <<hasKey, phase, httpVars, promptVars, isAsync, pending, events,
                   frames, completed, raised, disconnected>>

resume_error_then_done ==
    /\ gpc = "yield_error" /\ Running
    /\ frames' = Append(frames, DoneFrame)
    /\ gpc' = "yield_done"
    /\ UNCHANGED <<hasKey, phase, httpVars, promptVars, isAsync, pending, events,
                   completed, raised, disconnected>>

\* main.py:232: after the error frame the generator falls off its end.
resume_error ==
    /\ gpc = "yield_error" /\ Running
    /\ gpc' = "finished"
    /\ UNCHANGED <<hasKey, phase, httpVars, promptVars, isAsync, pending, events,
                   frames, completed, raised, disconnected>>

\* The positions at which the coroutine is suspended: before its first step,
\* at a yield, in asyncio.sleep(0), or (async branch) waiting for a chunk.
\* The sync branch's next(stream) blocks the event loop and is none of them.
AtYield == gpc \in {"start", "yield_delta", "yield_done", "yield_error"}
AtAwait == gpc = "sleep" \/ (gpc = "iterate" /\ isAsync)

\* The client goes away.  A generator suspended at a yield is closed
\* (GeneratorExit at the yield); one suspended in an await has its task
\* cancelled (CancelledError at the await).
client_disconnect ==
    /\ ~disconnected /\ Running
    /\ AtYield \/ AtAwait
    /\ disconnected' = TRUE
    /\ pending' = IF AtYield THEN "GeneratorExit" ELSE "CancelledError"
    /\ UNCHANGED <<hasKey, phase, httpVars, promptVars, isAsync, gpc, events,
                   frames, completed, raised>>

\* The pending exception is thrown into the generator where it is suspended:
\* inside the try statement except before the first step and at the yield of
\* the error frame, which sits in the except clause itself.
throw_pending ==
    /\ pending # "none"
    /\ pending' = "none"
    /\ IF gpc \in {"start", "yield_error"}
       THEN gpc' = "closed" /\ UNCHANGED frames
       ELSE Raise(pending)
    /\ UNCHANGED <<hasKey, phase, httpVars, promptVars, isAsync, events,
                   completed, raised, disconnected>>

stream_generate_few == \E r \in StreamRequests : stream_generate_on(r)

NextStream ==
    \/ Startup \/ stream_generate_few
    \/ gen_start \/ next_chunk \/ next_stop \/ next_raise
    \/ resume_delta \/ resume_sleep \/ resume_done \/ resume_error
    \/ client_disconnect \/ throw_pending

SpecStream == Init /\ [][NextStream]_vars

-----------------------------------------------------------------------------
(* Properties of the stream, checked under SpecStream.                     *)

Terminal(f) == f.key \in {"done", "error"}

RECURSIVE DeltasOf(_)
\* One delta frame per delivered event whose piece is a non-empty string, in
\* arrival order.
DeltasOf(evs) ==
    IF evs = <<>> THEN <<>>
    ELSE LET piece == ExtractPiece(Head(evs))
         IN  IF piece \in {{}, {""}} THEN DeltasOf(Tail(evs))
             ELSE <<DeltaFrame(Val(piece))>> \o DeltasOf(Tail(evs))

\* C1: a terminal frame (done or error) is only ever the last frame, so at
\* most one is emitted and nothing follows it; a stream whose client stays
\* connected never ends by an exception leaving the generator, and once its
\* generator has finished the last frame is a terminal frame.
C1_OneTerminalFrameLast ==
    /\ \A i \in 1..Len(frames) : Terminal(frames[i]) => i = Len(frames)
    /\ ~disconnected => gpc # "propagated"
    /\ gpc = "finished" /\ ~disconnected =>
          Len(frames) >= 1 /\ Terminal(frames[Len(frames)])

\* C1 witness: a connected stream has finished after deltas and an error frame.
C1_Witness ==
    /\ gpc = "finished" /\ ~disconnected /\ Len(frames) >= 2
    /\ frames[Len(frames)].key = "error"

\* C2: once the upstream has completed normally the frames are exactly the
\* delta frames of the non-empty pieces, in arrival order, then one done frame.
C2_DeltasInOrderThenDone ==
    completed => frames = DeltasOf(events) \o <<DoneFrame>>

\* C2 witness: three non-empty fragments and normal completion, four frames;
\* the fragments are not all equal, so the order shows.
C2_Witness ==
    /\ completed /\ Len(events) = 3 /\ Len(frames) = 4
    /\ frames[1] # frames[2]

\* C3: once the upstream iterator has raised the frames are exactly the delta
\* frames of the non-empty pieces delivered before, then one error frame, and
\* no done frame.
C3_DeltasThenOneError ==
    raised =>
        /\ frames = DeltasOf(events) \o <<ErrorFrame(Message("UpstreamError"))>>
        /\ \A i \in 1..Len(frames) : frames[i] # DoneFrame

\* C3 witness: failure after one fragment, two frames, generator finished.
C3_Witness ==
    /\ raised /\ Len(events) = 1 /\ Len(frames) = 2 /\ gpc = "finished"

\* C8: from the disconnect on, no step emits a frame or takes a chunk from the
\* upstream, and the generator never resumes its loop.
C8_NothingAfterDisconnect ==
    [][disconnected =>
          /\ frames' = frames
          /\ events' = events
          /\ gpc' \in {"closed", "propagated"}]_vars

\* C8 witness: the disconnect arrived in an await after a delta frame and the
\* cancellation has left the generator.
C8_Witness ==
    /\ disconnected /\ pending = "none" /\ gpc = "propagated"
    /\ Len(frames) >= 1

-----------------------------------------------------------------------------
(* build_system_prompt as a function of its arguments (SpecPrompt).        *)

\* Personalization objects that pass validation, None included as {}.
Personalizations ==
    {{}} \cup
    {{p} : p \in
        [tone : {{}, {""}, {"warm"}},
         setting : {{}, {""}, {"a lab"}},
         characters : {{}, {1}, {10}},
         length : {{}, {"short"}},
         choices : {{}, {6}},
         extra_instructions : {{}, {""}, {"Use metaphors."}}]}

InitPrompt ==
    /\ hasKey = TRUE /\ phase = "serving"
    /\ endpoint = "none" /\ req = {} /\ call = {} /\ resp = {}
    /\ isAsync = FALSE /\ gpc = "none" /\ pending = "none"
    /\ events = <<>> /\ frames = <<>>
    /\ completed = FALSE /\ raised = FALSE /\ disconnected = FALSE
    /\ cin \in {{[mode |-> m, personalization |-> p]} :
                   m \in RequestModes, p \in Personalizations}
    /\ cout = {}

\* One call of build_system_prompt (main.py:72-109).
compile ==
    /\ cout = {}
    /\ \E a \in cin : cout' = {build_system_prompt(a.mode, a.personalization)}
    /\ UNCHANGED <<hasKey, phase, httpVars, genVars, cin>>

NextPrompt == compile

SpecPrompt == InitPrompt /\ [][NextPrompt]_vars

FieldOrder ==
    <<"tone", "setting", "characters", "length", "choices", "extra_instructions">>

StringFields == {"tone", "setting", "length", "extra_instructions"}

FieldValue(p, f) ==
    CASE f = "tone" -> p.tone
      [] f = "setting" -> p.setting
      [] f = "characters" -> p.characters
      [] f = "length" -> p.length
      [] f = "choices" -> p.choices
      [] f = "extra_instructions" -> p.extra_instructions

\* The field is set (is not None).
Present(p, f) == FieldValue(p, f) # {}

\* The field is set to something other than the empty string.
PresentNonEmpty(p, f) ==
    Present(p, f) /\ (f \in StringFields => FieldValue(p, f) # {""})

RECURSIVE ClausesOfPresent(_, _)
ClausesOfPresent(p, fs) ==
    IF fs = <<>> THEN <<>>
    ELSE (IF Present(p, Head(fs)) THEN <<Clause(Head(fs), p)>> ELSE <<>>)
         \o ClausesOfPresent(p, Tail(fs))

RECURSIVE ClausesOfNonEmpty(_, _)
ClausesOfNonEmpty(p, fs) ==
    IF fs = <<>> THEN <<>>
    ELSE (IF PresentNonEmpty(p, Head(fs)) THEN <<Clause(Head(fs), p)>> ELSE <<>>)
         \o ClausesOfNonEmpty(p, Tail(fs))

Occurrences(text, piece) == Cardinality({i \in 1..Len(text) : text[i] = piece})

\* C10 (as claimed): for a registry mode the prompt is the mode's non-empty
\* base template, once, then one clause for each field that is present (not
\* None), in the fixed order, then the closing sentence.
C10_ClausePerPresentField ==
    \A a \in cin, text \in cout :
        a.mode \in MODE_DEFINITIONS =>
            /\ BaseTemplate(a.mode) # ""
            /\ Occurrences(text, BaseTemplate(a.mode)) = 1
            /\ text = Join(<< <<BaseTemplate(a.mode)>> >>
                           \o (IF a.personalization = {} THEN <<>>
                               ELSE ClausesOfPresent(Val(a.personalization), FieldOrder))
                           \o << <<ClosingSentence>> >>)

\* C10 (amended): as above, with one clause for each field that is present
\* and not the empty string; a field that is None or "" gets no clause.
C10_ClausePerNonEmptyField ==
    \A a \in cin, text \in cout :
        a.mode \in MODE_DEFINITIONS =>
            /\ BaseTemplate(a.mode) # ""
            /\ Occurrences(text, BaseTemplate(a.mode)) = 1
            /\ text = Join(<< <<BaseTemplate(a.mode)>> >>
                           \o (IF a.personalization = {} THEN <<>>
                               ELSE ClausesOfNonEmpty(Val(a.personalization), FieldOrder))
                           \o << <<ClosingSentence>> >>)

\* C10 witness: a registry mode compiled with all six fields non-empty.
C10_Witness ==
    /\ cout # {}
    /\ \E a \in cin :
          /\ a.mode \in MODE_DEFINITIONS
          /\ a.personalization # {}
          /\ \A i \in 1..Len(FieldOrder) :
                PresentNonEmpty(Val(a.personalization), FieldOrder[i])

====
